---- MODULE Spec2Model ----
(***************************************************************************)
(* Model of chapter10/scheduler-skeleton.py: the ExampleScheduler callbacks *)
(* invoked by the Mesos scheduler driver on the background thread, and the *)
(* foreground thread of main() with its SIGINT handler.                    *)
(*                                                                         *)
(* Resource quantities are integers: cpus in tenths of a compute unit      *)
(* (0.1 cpus = 1), mem in memory units.                                    *)
(***************************************************************************)
EXTENDS Integers, Sequences, FiniteSets, TLC

\* ---- bounds of the model ----
MaxEvents == 3      \* callbacks the driver delivers in one run
MaxBatch == 2       \* offers in one resourceOffers batch
MaxOffers == 2      \* offers delivered in one run
MaxSignals == 2     \* SIGINTs delivered to the process

\* ---- values of the program ----
TaskCpus == 1       \* cpus.scalar.value = 0.1, in tenths
TaskMem == 32       \* mem.scalar.value = 32
ImplicitAcknowledgements == 1   \* implicitAcknowledgements = 1

\* The offers the resource manager may make: <<slave_id, cpus, mem>>.
\* Nothing at all, cpus without enough mem, exactly the request, and
\* 1.0 cpus with 128 mem.
OfferKinds ==
    { <<"s1", 0, 0>>, <<"s2", 10, 16>>, <<"s2", 1, 32>>, <<"s1", 10, 128>> }
Slaves == {"s1", "s2"}
UpdateStates == {"TASK_RUNNING", "TASK_FINISHED"}
TerminalStates == {"TASK_FINISHED", "TASK_FAILED", "TASK_LOST", "TASK_KILLED"}
\* A task id that no uuid4() call of this run returns.
UnknownTasks == {0}
\* The framework ids the master may pass to registered().
FrameworkIds == {"fw1", "fw2"}

VARIABLES
    fgpc,           \* foreground thread: position in main()
    bgpc,           \* background thread: position in run_driver_thread()
    installed,      \* signal.signal(SIGINT, signal_handler) has run
    driverStatus,   \* the driver's status
    runResult,      \* value driver.run() returned ("NONE" before it returns)
    status,         \* local `status` of run_driver_thread (-1 before set)
    exitStatus,     \* process exit status (-1 while the process lives)
    stopCalls,      \* driver.stop() calls so far
    sigHandled,     \* runs of signal_handler so far
    signals,        \* SIGINTs delivered so far
    events,         \* callbacks delivered so far
    lastEvent,      \* the callback delivered last
    batch,          \* offers the running resourceOffers loop has not reached
    offers,         \* every offer delivered, in order; offer id = position
    launches,       \* driver.launchTasks calls, in order
    ledger,         \* task records held by the scheduler object: id -> state
    updates,        \* last "Task .. is in state .." line logged, per task id
    fault,          \* a callback raised a Python exception
    self,           \* the attributes of the ExampleScheduler object
    acks            \* status updates: acknowledgeStatusUpdate calls made by
                    \* the scheduler, and updates left unacknowledged

vars == <<fgpc, bgpc, installed, driverStatus, runResult, status, exitStatus,
          stopCalls, sigHandled, signals, events, lastEvent, batch, offers,
          launches, ledger, updates, fault, self, acks>>

fgVars == <<fgpc, installed, exitStatus, sigHandled, signals>>
bgVars == <<bgpc, runResult, status>>
schedVars == <<batch, offers, launches, ledger, updates, fault, self, acks>>

Event(type, task, state, slave) ==
    [type |-> type, task |-> task, state |-> state, slave |-> slave]

\* State after main() has built executor, framework and driver: the
\* scheduler object holds self.executor and nothing else.
Init ==
    /\ fgpc = "start"
    /\ bgpc = "idle"
    /\ installed = FALSE
    /\ driverStatus = "DRIVER_NOT_STARTED"
    /\ runResult = "NONE"
    /\ status = -1
    /\ exitStatus = -1
    /\ stopCalls = 0
    /\ sigHandled = 0
    /\ signals = 0
    /\ events = 0
    /\ lastEvent = Event("none", 0, "", "")
    /\ batch = <<>>
    /\ offers = <<>>
    /\ launches = <<>>
    /\ ledger = <<>>
    /\ updates = <<>>
    /\ fault = FALSE
    /\ self = [executor |-> "ExampleExecutor"]
    /\ acks = [explicit |-> 0, unacked |-> 0]

Alive == exitStatus = -1

\* ------------------------------------------------------------------------
\* The driver, as the program uses it.

\* driver.stop(): idempotent; only a running driver changes status.
DriverStop(s) == IF s = "DRIVER_RUNNING" THEN "DRIVER_STOPPED" ELSE s

\* The driver invokes a callback only while it is running, on the thread
\* inside driver.run(), one callback at a time.
CanDeliver ==
    /\ Alive
    /\ bgpc = "run"
    /\ driverStatus = "DRIVER_RUNNING"
    /\ events < MaxEvents

Delivered(e) ==
    /\ events' = events + 1
    /\ lastEvent' = e

\* A callback that raises: the driver's Python binding prints the
\* exception and aborts the driver.
Raised ==
    /\ fault' = TRUE
    /\ driverStatus' = "DRIVER_ABORTED"

\* ------------------------------------------------------------------------
\* ExampleScheduler: the callbacks, run by the driver on the background
\* thread.  No callback assigns to an attribute of the scheduler object.

\* registered with a slip: it keeps the id it is given, every time.
registeredStoresId(framework_id) ==
    /\ CanDeliver
    /\ Delivered(Event("registered", 0, "", ""))
    /\ self' = ("framework_id" :> framework_id) @@ self
    /\ UNCHANGED <<fgVars, bgVars, batch, offers, launches, ledger, updates,
                   fault, acks, driverStatus, stopCalls>>

\* registered(self, driver, framework_id, master_info): logs the id and
\* keeps nothing.
registered(framework_id) ==
    /\ CanDeliver
    /\ Delivered(Event("registered", 0, "", ""))
    /\ UNCHANGED <<fgVars, bgVars, schedVars, driverStatus, stopCalls>>

\* `def reregistered():` takes no parameter, and the driver calls it as a
\* method with arguments: the call raises TypeError before the body runs.
reregistered ==
    /\ CanDeliver
    /\ Delivered(Event("reregistered", 0, "", ""))
    /\ Raised
    /\ UNCHANGED <<fgVars, bgVars, batch, offers, launches, ledger, updates,
                   self, acks, stopCalls>>

\* `def disconnected():` likewise raises TypeError when it is called.
disconnected ==
    /\ CanDeliver
    /\ Delivered(Event("disconnected", 0, "", ""))
    /\ Raised
    /\ UNCHANGED <<fgVars, bgVars, batch, offers, launches, ledger, updates,
                   self, acks, stopCalls>>

\* str(uuid.uuid4()): a fresh identifier for each call.
NewUuid == Len(launches) + 1

\* MakeTask with a slip: the task asks for everything the offer holds.
MakeTaskWholeOffer(offer, task_id) ==
    [ task_id |-> task_id,
      slave_id |-> offer.slave_id,
      executor |-> self.executor,
      cpus |-> offer.cpus,
      mem |-> offer.mem ]

\* The TaskInfo built for one offer.
MakeTask(offer, task_id) ==
    [ task_id |-> task_id,
      slave_id |-> offer.slave_id,
      executor |-> self.executor,
      cpus |-> TaskCpus,
      mem |-> TaskMem ]

\* The batches the driver may hand to resourceOffers: 1..MaxBatch offers
\* with fresh offer ids.
OfferAt(id, kind) ==
    [id |-> id, slave_id |-> kind[1], cpus |-> kind[2], mem |-> kind[3]]

Batches ==
    UNION { { [i \in 1..n |-> OfferAt(Len(offers) + i, ks[i])] :
                ks \in [1..n -> OfferKinds] } :
            n \in 1..MaxBatch }

\* The same batches with every offer of one kind: 1.0 cpus, 128 mem on s1.
PlainBatches ==
    { [i \in 1..n |-> OfferAt(Len(offers) + i, <<"s1", 10, 128>>)] :
        n \in 1..MaxBatch }

\* resourceOffers(self, driver, offers) is entered with a batch of `bs`.
resourceOffersFrom(bs) ==
    /\ CanDeliver
    /\ \E b \in bs :
        /\ Len(offers) + Len(b) <= MaxOffers
        /\ batch' = b
        /\ offers' = offers \o b
    /\ bgpc' = "offers"
    /\ Delivered(Event("resourceOffers", 0, "", ""))
    /\ UNCHANGED <<fgVars, runResult, status, launches, ledger, updates,
                   fault, self, acks, driverStatus, stopCalls>>

resourceOffers == resourceOffersFrom(Batches)

\* resourceOffersStep with a slip: the callback returns after the first
\* offer and leaves the rest of the batch pending.
resourceOffersStepReturnsEarly ==
    /\ Alive
    /\ bgpc = "offers"
    /\ batch # <<>>
    /\ LET offer == Head(batch)
           task == MakeTask(offer, NewUuid)
       IN  launches' = Append(launches,
                              [offer_id |-> offer.id, tasks |-> <<task>>])
    /\ batch' = Tail(batch)
    /\ bgpc' = "run"
    /\ UNCHANGED <<fgVars, runResult, status, offers, ledger, updates, fault,
                   self, acks, driverStatus, stopCalls, events, lastEvent>>

\* resourceOffersStep with a slip: uuid4() is called once, before the
\* loop, so the tasks of one batch share the identifier.
resourceOffersStepSharedId ==
    /\ Alive
    /\ bgpc = "offers"
    /\ batch # <<>>
    /\ LET offer == Head(batch)
           task == MakeTask(offer, Len(offers))
       IN  launches' = Append(launches,
                              [offer_id |-> offer.id, tasks |-> <<task>>])
    /\ batch' = Tail(batch)
    /\ bgpc' = IF Tail(batch) = <<>> THEN "run" ELSE "offers"
    /\ UNCHANGED <<fgVars, runResult, status, offers, ledger, updates, fault,
                   self, acks, driverStatus, stopCalls, events, lastEvent>>

\* One iteration of `for offer in offers:`: log the offer, build one task,
\* call driver.launchTasks(offer.id, [task]); the callback returns after
\* the last offer.
resourceOffersStep ==
    /\ Alive
    /\ bgpc = "offers"
    /\ batch # <<>>
    /\ LET offer == Head(batch)
           task == MakeTask(offer, NewUuid)
       IN  launches' = Append(launches,
                              [offer_id |-> offer.id, tasks |-> <<task>>])
    /\ batch' = Tail(batch)
    /\ bgpc' = IF Tail(batch) = <<>> THEN "run" ELSE "offers"
    /\ UNCHANGED <<fgVars, runResult, status, offers, ledger, updates, fault,
                   self, acks, driverStatus, stopCalls, events, lastEvent>>

\* offerRescinded(self, driver, offer_id): pass.
offerRescinded ==
    /\ CanDeliver
    /\ Delivered(Event("offerRescinded", 0, "", ""))
    /\ UNCHANGED <<fgVars, bgVars, schedVars, driverStatus, stopCalls>>

\* Every task id a launchTasks call of this run carried.
LaunchedTasks == { launches[j].tasks[1].task_id : j \in DOMAIN launches }

\* statusUpdate with a slip: it indexes the task records by the update's
\* task id before logging, which raises KeyError for an id they lack.
statusUpdateLookup(task_id, state) ==
    /\ CanDeliver
    /\ Delivered(Event("statusUpdate", task_id, state, ""))
    /\ IF task_id \in DOMAIN ledger
       THEN /\ updates' = (task_id :> state) @@ updates
            /\ UNCHANGED <<fault, driverStatus>>
       ELSE /\ Raised
            /\ UNCHANGED updates
    /\ acks' = [acks EXCEPT !.unacked =
                  IF task_id \in DOMAIN ledger THEN @ ELSE @ + 1]
    /\ UNCHANGED <<fgVars, bgVars, batch, offers, launches, ledger, self,
                   stopCalls>>

\* statusUpdate with a slip: it also calls driver.acknowledgeStatusUpdate,
\* although the driver acknowledges implicitly.
statusUpdateAcksExplicitly(task_id, state) ==
    /\ CanDeliver
    /\ Delivered(Event("statusUpdate", task_id, state, ""))
    /\ updates' = (task_id :> state) @@ updates
    /\ acks' = [acks EXCEPT !.explicit = @ + 1]
    /\ UNCHANGED <<fgVars, bgVars, batch, offers, launches, ledger, fault,
                   self, driverStatus, stopCalls>>

\* statusUpdate(self, driver, update): logs the task id and the state name;
\* it looks nothing up, calls nothing on the driver and returns.  With
\* implicit acknowledgements the driver acknowledges the update when the
\* callback returns; otherwise the update stays unacknowledged.
statusUpdate(task_id, state) ==
    /\ CanDeliver
    /\ Delivered(Event("statusUpdate", task_id, state, ""))
    /\ updates' = (task_id :> state) @@ updates
    /\ acks' = [acks EXCEPT !.unacked =
                  IF ImplicitAcknowledgements = 1 THEN @ ELSE @ + 1]
    /\ UNCHANGED <<fgVars, bgVars, batch, offers, launches, ledger, fault,
                   self, driverStatus, stopCalls>>

\* frameworkMessage(self, driver, executor_id, slave_id, message): pass.
frameworkMessage ==
    /\ CanDeliver
    /\ Delivered(Event("frameworkMessage", 0, "", ""))
    /\ UNCHANGED <<fgVars, bgVars, schedVars, driverStatus, stopCalls>>

\* slaveLost with a body: every task launched on the slave is recorded LOST.
slaveLostMarksTasks(slave_id) ==
    /\ CanDeliver
    /\ Delivered(Event("slaveLost", 0, "", slave_id))
    /\ ledger' =
         [ t \in { launches[j].tasks[1].task_id :
                     j \in { k \in DOMAIN launches :
                               launches[k].tasks[1].slave_id = slave_id } }
             |-> "TASK_LOST" ] @@ ledger
    /\ UNCHANGED <<fgVars, bgVars, batch, offers, launches, updates, fault,
                   self, acks, driverStatus, stopCalls>>

\* slaveLost(self, driver, slave_id): pass.
slaveLost(slave_id) ==
    /\ CanDeliver
    /\ Delivered(Event("slaveLost", 0, "", slave_id))
    /\ UNCHANGED <<fgVars, bgVars, schedVars, driverStatus, stopCalls>>

\* executorLost with a body: every launched task is recorded LOST.
executorLostMarksTasks ==
    /\ CanDeliver
    /\ Delivered(Event("executorLost", 0, "", ""))
    /\ ledger' = [ t \in LaunchedTasks |-> "TASK_LOST" ] @@ ledger
    /\ UNCHANGED <<fgVars, bgVars, batch, offers, launches, updates, fault,
                   self, acks, driverStatus, stopCalls>>

\* executorLost(self, driver, executor_id, slave_id, status): pass.
executorLost ==
    /\ CanDeliver
    /\ Delivered(Event("executorLost", 0, "", ""))
    /\ UNCHANGED <<fgVars, bgVars, schedVars, driverStatus, stopCalls>>

\* error(self, driver, message): logs the message.  The driver has been
\* aborted before it invokes this callback.
error ==
    /\ CanDeliver
    /\ Delivered(Event("error", 0, "", ""))
    /\ driverStatus' = "DRIVER_ABORTED"
    /\ UNCHANGED <<fgVars, bgVars, schedVars, stopCalls>>

\* ------------------------------------------------------------------------
\* main(): the background thread, run_driver_thread().

\* status = 0 if driver.run() == mesos_pb2.DRIVER_STOPPED else 1
StatusOf(result) == IF result = "DRIVER_STOPPED" THEN 0 ELSE 1

\* The thread enters driver.run(): the driver starts and blocks.
run_driver_thread_run ==
    /\ Alive
    /\ bgpc = "started"
    /\ bgpc' = "run"
    /\ driverStatus' = IF driverStatus = "DRIVER_NOT_STARTED"
                       THEN "DRIVER_RUNNING" ELSE driverStatus
    /\ UNCHANGED <<fgVars, runResult, status, schedVars, stopCalls, events,
                   lastEvent>>

\* driver.run() returns once the driver is stopped or aborted; its value
\* decides `status`.
run_driver_thread_return ==
    /\ Alive
    /\ bgpc = "run"
    /\ driverStatus \in {"DRIVER_STOPPED", "DRIVER_ABORTED"}
    /\ runResult' = driverStatus
    /\ status' = StatusOf(driverStatus)
    /\ bgpc' = "ret"
    /\ UNCHANGED <<fgVars, schedVars, driverStatus, stopCalls, events,
                   lastEvent>>

\* driver.stop()  # Ensure the driver process terminates
run_driver_thread_stop ==
    /\ Alive
    /\ bgpc = "ret"
    /\ stopCalls' = stopCalls + 1
    /\ driverStatus' = DriverStop(driverStatus)
    /\ bgpc' = "exit"
    /\ UNCHANGED <<fgVars, runResult, status, schedVars, events, lastEvent>>

\* sys.exit(status) on a thread that is not the main thread raises
\* SystemExit there: the thread ends, the process goes on.
run_driver_thread_exit ==
    /\ Alive
    /\ bgpc = "exit"
    /\ bgpc' = "dead"
    /\ UNCHANGED <<fgVars, runResult, status, schedVars, driverStatus,
                   stopCalls, events, lastEvent>>

\* ------------------------------------------------------------------------
\* main(): the foreground thread.

\* driver_thread = Thread(target=run_driver_thread); driver_thread.start()
main_start_thread ==
    /\ Alive
    /\ fgpc = "start"
    /\ fgpc' = "install"
    /\ bgpc' = "started"
    /\ UNCHANGED <<installed, exitStatus, sigHandled, signals, runResult,
                   status, schedVars, driverStatus, stopCalls, events,
                   lastEvent>>

\* signal.signal(signal.SIGINT, signal_handler)
main_install_handler ==
    /\ Alive
    /\ fgpc = "install"
    /\ fgpc' = "poll"
    /\ installed' = TRUE
    /\ UNCHANGED <<exitStatus, sigHandled, signals, bgVars, schedVars,
                   driverStatus, stopCalls, events, lastEvent>>

\* main_exit with a slip: the polling loop does not wait for the thread.
main_exit_no_wait ==
    /\ Alive
    /\ fgpc = "poll"
    /\ fgpc' = "exited"
    /\ exitStatus' = 0
    /\ UNCHANGED <<installed, sigHandled, signals, bgVars, schedVars,
                   driverStatus, stopCalls, events, lastEvent>>

\* `while driver_thread.is_alive(): time.sleep(1)` ends when the thread
\* is dead; then 'Framework finished.' is logged and sys.exit(0) runs.
main_exit ==
    /\ Alive
    /\ fgpc = "poll"
    /\ bgpc = "dead"
    /\ fgpc' = "exited"
    /\ exitStatus' = 0
    /\ UNCHANGED <<installed, sigHandled, signals, bgVars, schedVars,
                   driverStatus, stopCalls, events, lastEvent>>

\* signal_handler with a slip: it logs and returns without driver.stop().
signal_handler_no_stop ==
    /\ Alive
    /\ installed
    /\ fgpc = "poll"
    /\ signals < MaxSignals
    /\ signals' = signals + 1
    /\ sigHandled' = sigHandled + 1
    /\ UNCHANGED <<fgpc, installed, exitStatus, bgVars, schedVars, events,
                   lastEvent, stopCalls, driverStatus>>

\* signal_handler with a slip: besides driver.stop() it drops the offers
\* the running resourceOffers loop has not reached.
signal_handler_drops_offers ==
    /\ Alive
    /\ installed
    /\ fgpc = "poll"
    /\ signals < MaxSignals
    /\ signals' = signals + 1
    /\ sigHandled' = sigHandled + 1
    /\ stopCalls' = stopCalls + 1
    /\ driverStatus' = DriverStop(driverStatus)
    /\ batch' = <<>>
    /\ UNCHANGED <<fgpc, installed, exitStatus, bgVars, offers, launches,
                   ledger, updates, fault, self, acks, events, lastEvent>>

\* signal_handler(signal, frame): logs 'Shutting down', calls driver.stop()
\* and returns.  It runs on the foreground thread, between two steps of
\* the polling loop.
signal_handler ==
    /\ Alive
    /\ installed
    /\ fgpc = "poll"
    /\ signals < MaxSignals
    /\ signals' = signals + 1
    /\ sigHandled' = sigHandled + 1
    /\ stopCalls' = stopCalls + 1
    /\ driverStatus' = DriverStop(driverStatus)
    /\ UNCHANGED <<fgpc, installed, exitStatus, bgVars, schedVars, events,
                   lastEvent>>

\* A SIGINT before signal.signal() has run gets Python's default handler:
\* KeyboardInterrupt is raised in main() and nothing catches it.
keyboard_interrupt ==
    /\ Alive
    /\ ~installed
    /\ fgpc \in {"start", "install"}
    /\ signals < MaxSignals
    /\ signals' = signals + 1
    /\ fgpc' = "interrupted"
    /\ UNCHANGED <<installed, exitStatus, sigHandled, bgVars, schedVars,
                   driverStatus, stopCalls, events, lastEvent>>

\* After the uncaught KeyboardInterrupt the interpreter waits for the
\* (non-daemon) driver thread, if it was started, and exits with status 1.
interrupted_exit ==
    /\ Alive
    /\ fgpc = "interrupted"
    /\ bgpc \in {"idle", "dead"}
    /\ exitStatus' = 1
    /\ UNCHANGED <<fgpc, installed, sigHandled, signals, bgVars, schedVars,
                   driverStatus, stopCalls, events, lastEvent>>

\* ------------------------------------------------------------------------
Next ==
    \/ main_start_thread
    \/ main_install_handler
    \/ main_exit
    \/ signal_handler
    \/ keyboard_interrupt
    \/ interrupted_exit
    \/ run_driver_thread_run
    \/ run_driver_thread_return
    \/ run_driver_thread_stop
    \/ run_driver_thread_exit
    \/ \E f \in FrameworkIds : registered(f)
    \/ reregistered
    \/ disconnected
    \/ resourceOffers
    \/ resourceOffersStep
    \/ offerRescinded
    \/ \E t \in LaunchedTasks \cup UnknownTasks, s \in UpdateStates :
          statusUpdate(t, s)
    \/ frameworkMessage
    \/ \E m \in Slaves : slaveLost(m)
    \/ executorLost
    \/ error

Spec == Init /\ [][Next]_vars

\* Both threads are scheduled fairly: a step of run_driver_thread, of the
\* offer loop or of main() that stays possible is taken.  Nothing obliges
\* the manager to send an event or anyone to send a signal.
Fairness ==
    /\ WF_vars(run_driver_thread_run)
    /\ WF_vars(run_driver_thread_return)
    /\ WF_vars(run_driver_thread_stop)
    /\ WF_vars(run_driver_thread_exit)
    /\ WF_vars(resourceOffersStep)
    /\ WF_vars(main_start_thread)
    /\ WF_vars(main_install_handler)
    /\ WF_vars(main_exit)
    /\ WF_vars(interrupted_exit)

\* The same program with the offers' contents fixed: the steps of the two
\* threads, the signals and every callback are those of Next; only the
\* slave and the quantities of the offers, which no step of the lifecycle
\* reads, are not varied.
LifeNext ==
    \/ main_start_thread
    \/ main_install_handler
    \/ main_exit
    \/ signal_handler
    \/ keyboard_interrupt
    \/ interrupted_exit
    \/ run_driver_thread_run
    \/ run_driver_thread_return
    \/ run_driver_thread_stop
    \/ run_driver_thread_exit
    \/ \E f \in FrameworkIds : registered(f)
    \/ reregistered
    \/ disconnected
    \/ resourceOffersFrom(PlainBatches)
    \/ resourceOffersStep
    \/ offerRescinded
    \/ \E t \in LaunchedTasks \cup UnknownTasks, s \in UpdateStates :
          statusUpdate(t, s)
    \/ frameworkMessage
    \/ \E m \in Slaves : slaveLost(m)
    \/ executorLost
    \/ error

FairSpec == Init /\ [][LifeNext]_vars /\ Fairness

\* ------------------------------------------------------------------------
\* Properties.

Exited == exitStatus # -1

\* The reference policy's minimum: 0.1 cpus and 32 mem.
MeetsMinimum(offer) == offer.cpus >= TaskCpus /\ offer.mem >= TaskMem

\* The lifecycle state of a task as the status updates give it.
TaskStateOf(t) == IF t \in DOMAIN updates THEN updates[t] ELSE "TASK_SUBMITTED"

\* The launchTasks calls made for one offer.
LaunchesFor(offer_id) == { j \in DOMAIN launches : launches[j].offer_id = offer_id }

\* C1: when the process has exited after driver.run() returned, the exit
\* status is 0 exactly if run() returned DRIVER_STOPPED, and 1 otherwise
\* (stated for the runs in which no callback raised).
ExitStatusFollowsDisposition ==
    (Exited /\ runResult # "NONE" /\ ~fault) =>
        /\ (exitStatus = 0) <=> (runResult = "DRIVER_STOPPED")
        /\ (exitStatus = 1) <=> (runResult # "DRIVER_STOPPED")

NoLaunchBelowMinimum ==
    \A j \in DOMAIN launches : MeetsMinimum(offers[launches[j].offer_id])

\* C4: every offer meeting the minimum that the loop has reached has
\* exactly one launchTasks call, with one task, bound to the offer's slave
\* and asking for exactly 0.1 cpus and 32 mem; an offer the loop has not
\* reached has none.
OneFixedTaskPerOffer ==
    \A i \in DOMAIN offers :
        MeetsMinimum(offers[i]) =>
            IF i <= Len(offers) - Len(batch)
            THEN /\ Cardinality(LaunchesFor(offers[i].id)) = 1
                 /\ \A j \in LaunchesFor(offers[i].id) :
                        /\ Len(launches[j].tasks) = 1
                        /\ launches[j].tasks[1].slave_id = offers[i].slave_id
                        /\ launches[j].tasks[1].cpus = TaskCpus
                        /\ launches[j].tasks[1].mem = TaskMem
            ELSE LaunchesFor(offers[i].id) = {}

\* C4 witness: the offer of 1.0 cpus and 128 mem on s1 was answered by a
\* launch of one task of 0.1 cpus and 32 mem on s1.
LargeOfferLaunched ==
    \E j \in DOMAIN launches :
        /\ offers[launches[j].offer_id].cpus = 10
        /\ offers[launches[j].offer_id].mem = 128
        /\ launches[j].tasks[1].slave_id = "s1"
        /\ launches[j].tasks[1].cpus = 1
        /\ launches[j].tasks[1].mem = 32

\* C5: every task handed to launchTasks is in the ledger, and so is the
\* task of every status update delivered for a launched task.
LaunchedTasksAreRecorded ==
    /\ \A t \in LaunchedTasks : t \in DOMAIN ledger
    /\ (lastEvent.type = "statusUpdate" /\ lastEvent.task \in LaunchedTasks)
           => lastEvent.task \in DOMAIN ledger

\* C6: a status update for a task id the scheduler never launched raises
\* nothing, stops nothing and changes no record: the driver goes on in the
\* status it had.
UnknownTaskUpdateIsHarmless ==
    [][ ( /\ events' = events + 1
          /\ lastEvent'.type = "statusUpdate"
          /\ lastEvent'.task \notin LaunchedTasks )
        => ( /\ fault' = fault
             /\ ledger' = ledger
             /\ launches' = launches
             /\ driverStatus' = driverStatus
             /\ exitStatus' = exitStatus
             /\ stopCalls' = stopCalls
             /\ bgpc' = bgpc ) ]_vars

\* C6 witness: FINISHED was reported for the unknown task, and afterwards
\* an offer batch was delivered and answered, with no fault.
OffersAnsweredAfterUnknownUpdate ==
    /\ \E t \in UnknownTasks :
          t \in DOMAIN updates /\ updates[t] = "TASK_FINISHED"
    /\ lastEvent.type = "resourceOffers"
    /\ launches # <<>>
    /\ ~fault
    /\ driverStatus = "DRIVER_RUNNING"

\* C7: a disconnected or re-registered event raises no fault and does not
\* abort the driver.
ReconnectIsNotFatal ==
    lastEvent.type \in {"disconnected", "reregistered"} =>
        (~fault /\ driverStatus # "DRIVER_ABORTED")

\* C8: a run in which the manager reported an unrecoverable error exits
\* with status 1, never 0.
ErrorExitsWithFailure ==
    (lastEvent.type = "error" /\ Exited) => exitStatus = 1

\* C9: once stop() has been requested and the driver has taken it (it is
\* no longer running), no offer is evaluated and no further launchTasks
\* call is made, however the signal handler interleaves with the callbacks.
NoLaunchAfterStopRequested ==
    [][ (stopCalls > 0 /\ driverStatus # "DRIVER_RUNNING")
            => launches' = launches ]_vars

\* C10 (as claimed): after slaveLost for a slave, every task launched on it
\* that was not terminal is recorded as LOST.
MachineLostMarksTasksLost ==
    lastEvent.type = "slaveLost" =>
        \A j \in DOMAIN launches :
            ( /\ launches[j].tasks[1].slave_id = lastEvent.slave
              /\ TaskStateOf(launches[j].tasks[1].task_id) \notin TerminalStates )
            => ( /\ launches[j].tasks[1].task_id \in DOMAIN ledger
                 /\ ledger[launches[j].tasks[1].task_id] = "TASK_LOST" )

\* C10 (amended): slaveLost is a no-op: it records no task as LOST and
\* leaves every record, launch and the driver as they were.
SlaveLostChangesNothing ==
    [][ ( /\ events' = events + 1
          /\ lastEvent'.type = "slaveLost" )
        => ( /\ ledger' = ledger
             /\ updates' = updates
             /\ launches' = launches
             /\ fault' = fault
             /\ driverStatus' = driverStatus
             /\ stopCalls' = stopCalls
             /\ bgpc' = bgpc ) ]_vars

\* C10 witness: slaveLost was delivered for a slave with a RUNNING task,
\* and no record says LOST.
SlaveLostWithRunningTask ==
    /\ lastEvent.type = "slaveLost"
    /\ \E j \in DOMAIN launches :
          /\ launches[j].tasks[1].slave_id = lastEvent.slave
          /\ TaskStateOf(launches[j].tasks[1].task_id) = "TASK_RUNNING"
    /\ \A t \in DOMAIN ledger : ledger[t] # "TASK_LOST"

\* C11: whenever no resourceOffers callback is executing, no offer of an
\* earlier batch is pending: every offer delivered so far was answered by
\* a launchTasks call, and the scheduler object holds nothing but its
\* executor.
OffersResolvedOnReturn ==
    bgpc # "offers" =>
        /\ batch = <<>>
        /\ \A i \in DOMAIN offers : LaunchesFor(offers[i].id) # {}
        /\ DOMAIN self = {"executor"}

\* C11 witness: a batch of two offers was delivered, the callback has
\* returned and both offers were answered.
BatchOfTwoResolved ==
    /\ bgpc = "run"
    /\ events = 1
    /\ lastEvent.type = "resourceOffers"
    /\ Len(offers) = 2
    /\ LaunchesFor(1) # {}
    /\ LaunchesFor(2) # {}

\* C12: what the scheduler object stores changes only in a registered or
\* re-registered step, and never once it holds a framework id: no
\* connection state appears without such an event, and a stored identity
\* is never replaced.
IdentityNeverReplaced ==
    [][ self' # self =>
          /\ events' = events + 1
          /\ lastEvent'.type \in {"registered", "reregistered"}
          /\ "framework_id" \notin DOMAIN self ]_vars

\* C12 witness: a second callback was a registered event, processed
\* without a fault, and the scheduler object is as it was built.
RegisteredProcessed ==
    /\ events >= 2
    /\ lastEvent.type = "registered"
    /\ ~fault
    /\ self = [executor |-> "ExampleExecutor"]

\* C13: with both threads scheduled fairly and a driver whose run()
\* returns once stop() has been requested, every run of the installed
\* signal handler is followed by the exit of the process.
SignalLeadsToExit ==
    ((stopCalls > 0) ~> (runResult # "NONE")) => ((sigHandled > 0) ~> Exited)

\* C13 witness: the handler ran and the process has exited through the
\* polling loop.
ExitedAfterSignal ==
    /\ sigHandled > 0
    /\ Exited
    /\ fgpc = "exited"

\* The Lifecycle Controller's state, read off the program: INIT until the
\* background thread is started, RUNNING while the loop runs and no stop
\* was requested, STOPPING once stop() was requested or driver.run() has
\* returned, STOPPED when the process has exited.
Lifecycle ==
    IF Exited THEN "STOPPED"
    ELSE IF bgpc = "idle" THEN "INIT"
    ELSE IF stopCalls > 0 \/ runResult # "NONE" THEN "STOPPING"
    ELSE "RUNNING"

LifecycleOrder ==
    { <<"INIT", "RUNNING">>, <<"RUNNING", "STOPPING">>,
      <<"STOPPING", "STOPPED">> }

\* C14 (as claimed): the lifecycle only stays or moves to the next state of
\* INIT -> RUNNING -> STOPPING -> STOPPED, and the process has not exited
\* while driver.run() has not returned.
LifecycleNeverSkips ==
    [][ /\ (Lifecycle' = Lifecycle \/ <<Lifecycle, Lifecycle'>> \in LifecycleOrder)
        /\ (Exited' => runResult' # "NONE") ]_vars

\* C14 (amended): the same, except that a SIGINT before the background
\* thread is started ends the process from INIT; once the thread is
\* started the process exits only after driver.run() has returned and the
\* thread has ended.
LifecycleSkipsOnlyBeforeStart ==
    [][ /\ \/ Lifecycle' = Lifecycle
           \/ <<Lifecycle, Lifecycle'>> \in LifecycleOrder
           \/ /\ Lifecycle = "INIT"
              /\ Lifecycle' = "STOPPED"
              /\ fgpc = "interrupted"
        /\ (Exited' /\ bgpc' # "idle") => (runResult' # "NONE" /\ bgpc' = "dead")
      ]_vars

\* C14 witness: the process went through a signal, the return of
\* driver.run() and the end of the thread, and has exited.
StoppedAfterLoopReturned ==
    /\ Lifecycle = "STOPPED"
    /\ sigHandled > 0
    /\ runResult = "DRIVER_STOPPED"
    /\ bgpc = "dead"

\* A step of the foreground thread: main() moves, or a SIGINT is taken.
ForegroundStep ==
    \/ fgpc' # fgpc
    \/ signals' # signals
    \/ installed' # installed
    \/ exitStatus' # exitStatus

\* C15: a step of the foreground thread, the signal handler included,
\* evaluates no offer, issues no launch and changes nothing the scheduler
\* holds; it touches the driver only by stop(); and the handler is back
\* in the polling loop at once, the background thread being where it was.
ForegroundOnlyStops ==
    [][ ForegroundStep =>
          /\ UNCHANGED <<batch, offers, launches, ledger, updates, fault,
                         self, acks, events, lastEvent, runResult, status>>
          /\ (driverStatus' # driverStatus => stopCalls' = stopCalls + 1)
          /\ (stopCalls' # stopCalls => sigHandled' = sigHandled + 1)
          /\ (sigHandled' # sigHandled =>
                (fgpc' = "poll" /\ bgpc' = bgpc /\ exitStatus' = exitStatus))
      ]_vars

\* C15 witness: the handler ran while resourceOffers was in the middle of
\* a batch; the pending offer is still there and main() is polling.
SignalHandledMidBatch ==
    /\ sigHandled > 0
    /\ fgpc = "poll"
    /\ bgpc = "offers"
    /\ batch # <<>>
    /\ launches # <<>>

\* C16: every SIGINT delivered once the background thread has been
\* started makes the process request stop() on the driver.
SignalAfterStartRequestsStop ==
    [][ (signals' = signals + 1 /\ bgpc # "idle")
            => stopCalls' = stopCalls + 1 ]_vars

\* C17: no two tasks handed to launchTasks in the run share a task id.
TaskIdsUnique ==
    \A i, j \in DOMAIN launches :
        \A k \in DOMAIN launches[i].tasks, l \in DOMAIN launches[j].tasks :
            (i # j \/ k # l) =>
                launches[i].tasks[k].task_id # launches[j].tasks[l].task_id

\* C17 witness: two offers of one batch, both of slave s1, were answered
\* with tasks of different ids.
TwoTasksSameSlaveSameBatch ==
    /\ events = 1
    /\ Len(launches) = 2
    /\ launches[1].tasks[1].slave_id = "s1"
    /\ launches[2].tasks[1].slave_id = "s1"
    /\ launches[1].tasks[1].task_id # launches[2].tasks[1].task_id

\* C18: an offerRescinded, frameworkMessage or executorLost callback
\* changes nothing the scheduler holds and sends nothing to the driver: no
\* launch, no acknowledgement, no stop.
NoOpCallbacksChangeNothing ==
    [][ ( /\ events' = events + 1
          /\ lastEvent'.type \in
                {"offerRescinded", "frameworkMessage", "executorLost"} )
        => ( /\ UNCHANGED <<batch, offers, launches, ledger, updates, fault,
                            self, acks, stopCalls, driverStatus>>
             /\ UNCHANGED <<fgVars, bgVars>> ) ]_vars

\* C18 witness: executorLost was delivered after a task was launched and
\* reported RUNNING; the driver runs on.
ExecutorLostAfterLaunch ==
    /\ lastEvent.type = "executorLost"
    /\ \E t \in LaunchedTasks : TaskStateOf(t) = "TASK_RUNNING"
    /\ driverStatus = "DRIVER_RUNNING"
    /\ ledger = <<>>

====
